---- MODULE Spec2Model ----
(***************************************************************************)
(* Mixtli Transfer gateway.                                                *)
(*                                                                         *)
(*  - quota resolver, presign broker and multipart coordinator             *)
(*    (server_multipart.js, kept as src/unnamed/part_003)                  *)
(*  - bundle assembler: GET /api/bundle (src/server_bundle.js) and         *)
(*    GET /api/transfers/:id/download.zip (src/server.js)                  *)
(*  - key derivation: safeKeyFrom (src/unnamed/part_003)                   *)
(*  - transfers: POST /api/transfers and the manifest, file and zip        *)
(*    routes (src/server.js)                                               *)
(*                                                                         *)
(* Byte counts are written in GiB units (4 stands for 4 * 1024**3).         *)
(* The object storage service is outside the repository: its multipart     *)
(* state machine is written from sections 4.4 and 6 of the specification.  *)
(***************************************************************************)
EXTENDS Integers, Sequences, FiniteSets, TLC

VARIABLES
    cfg,        \* deployment configuration read from the environment at boot
    sessions,   \* storage side: uploadId -> multipart session
    pending,    \* gateway instance -> request awaiting storage's answer
    last,       \* the request answered last, with its response
    breq,       \* bundle request: route and manifest
    handler,    \* bundle route handler: program position, loop index, thrown error
    archive,    \* archiver: queued entries, entry being read, finalize called
    res,        \* bundle response: headers sent, state, status, members written
    reads,      \* manifest indices whose storage read stream is open
    client,     \* whether the bundle client is still connected
    derived,    \* safeKeyFrom: the filename given and the key derived from it
    store,      \* objects of the transfers: key -> object
    now,        \* the clock, in days
    tres,       \* the transfer request answered last, with its response
    up          \* POST /api/upload: the request being received and its outcome

mpVars == <<cfg, sessions, pending, last>>
bundleVars == <<breq, handler, archive, res, reads, client>>
keyVars == <<derived>>
transferVars == <<store, now, tres>>
uploadVars == <<up>>
otherVars == <<keyVars, transferVars, uploadVars>>
vars == <<cfg, sessions, pending, last, breq, handler, archive, res, reads, client, derived,
          store, now, tres, up>>

-----------------------------------------------------------------------------
(* Bounds *)

MaxParts == 2        \* part numbers 1..MaxParts, part lists of up to MaxParts entries
MaxItems == 2        \* manifest length
MaxNameLen == 3      \* characters of a filename given to safeKeyFrom
MaxFiles == 2        \* files of one POST /api/transfers
MaxUploadChunks == 3 \* size of the file sent to POST /api/upload, in units of 100 MB

-----------------------------------------------------------------------------
(* Configuration and quota resolver: part_003 lines 62-77 *)

FREE_MAX_FILE_BYTES == 4
PRO_MAX_FILE_BYTES == 200
PROMAX_MAX_FILE_BYTES == 300
PRESIGN_MAX_SIZE == 400
MPCREATE_MAX_SIZE == 5120
MAX_PART_NUMBER == 10000
KEY_TAIL_MAX == 120
DEFAULT_TTL == 7
MIN_TTL_DAYS == 1
MAX_TTL_DAYS == 30
MAX_UPLOAD_MB == 200

PLAN_LIMITS ==
    [free |-> FREE_MAX_FILE_BYTES, pro |-> PRO_MAX_FILE_BYTES, promax |-> PROMAX_MAX_FILE_BYTES]

KnownPlans == {"free", "pro", "promax"}

\* String.prototype.toLowerCase on the plan values the model sends
toLowerCase(s) ==
    CASE s = "PRO" -> "pro"
      [] s = "Gold" -> "gold"
      [] OTHER -> s

\* a || b on strings: the empty string (and an absent header) is falsy
OrElse(a, b) == IF a # "" THEN a ELSE b

\* mutant: an unrecognised plan falls through to the most permissive plan
getPlanFromReq_FailOpen(req) ==
    IF ~cfg.ENABLE_PLAN_HEADER THEN cfg.DEFAULT_PLAN
    ELSE LET p == toLowerCase(OrElse(req.header, OrElse(req.query, cfg.DEFAULT_PLAN)))
         IN  IF p \in KnownPlans THEN p ELSE "promax"

\* mutant: the header is read although ENABLE_PLAN_HEADER is off
getPlanFromReq_IgnoresFlag(req) ==
    LET p == toLowerCase(OrElse(req.header, OrElse(req.query, cfg.DEFAULT_PLAN)))
    IN  IF p \in KnownPlans THEN p ELSE cfg.DEFAULT_PLAN

\* getPlanFromReq(req)
getPlanFromReq(req) ==
    IF ~cfg.ENABLE_PLAN_HEADER THEN cfg.DEFAULT_PLAN
    ELSE LET p == toLowerCase(OrElse(req.header, OrElse(req.query, cfg.DEFAULT_PLAN)))
         IN  IF p \in KnownPlans THEN p ELSE cfg.DEFAULT_PLAN

\* PLAN_LIMITS[plan] ?? PLAN_LIMITS.free
getPlanLimit(req) ==
    LET plan == getPlanFromReq(req)
    IN  IF plan \in DOMAIN PLAN_LIMITS THEN PLAN_LIMITS[plan] ELSE PLAN_LIMITS.free

\* mutant: off-by-one in the quota comparison
ExceedsLimit_OffByOne(size, limit) == size >= limit

\* parsed.size > limit
ExceedsLimit(size, limit) == size > limit

-----------------------------------------------------------------------------
(* Schemas: part_003 lines 91-116 *)

PresignSchema(body) ==
    /\ body.filename # ""
    /\ body.size > 0 /\ body.size <= PRESIGN_MAX_SIZE
    /\ body.contentType # ""

MpCreateSchema(body) ==
    /\ body.filename # ""
    /\ body.size > 0 /\ body.size <= MPCREATE_MAX_SIZE
    /\ body.contentType # ""

MpPartUrlSchema(body) ==
    /\ body.uploadId # ""
    /\ body.partNumber > 0 /\ body.partNumber <= MAX_PART_NUMBER

MpCompleteSchema(body) ==
    /\ body.uploadId # ""
    /\ \A k \in 1..Len(body.parts) :
          /\ body.parts[k].ETag # ""
          /\ body.parts[k].PartNumber > 0 /\ body.parts[k].PartNumber <= MAX_PART_NUMBER
    /\ Len(body.parts) >= 1

MpAbortSchema(body) == body.uploadId # ""

-----------------------------------------------------------------------------
(* Values the clients send *)

Instances == {"g1", "g2"}          \* gateway instances behind the load balancer
UploadIds == {"u1"}                \* upload identifiers storage can issue
PartNumbers == 1..MaxParts
Tags == {"t1", "t2"}               \* ETags storage can return for a part
NoTag == ""
PlanValues == {"", "free", "pro", "promax", "PRO", "Gold"}
DefaultPlans == {"free", "pro", "promax", "gold"}
Sizes == {0, 1, 4, 5, 200, 201, 300, 301, 400, 401, 5120, 5121}
StorageFaults == {"InvalidAccessKeyId", "AccessDenied", "NoSuchBucket", "TimeoutError"}

\* sequences of length n over S
SeqsOfLen(S, n) == [1..n -> S]

\* part lists with pairwise distinct part numbers, in any order
PartLists ==
    { l \in UNION { SeqsOfLen([ETag : Tags, PartNumber : PartNumbers], n) : n \in 0..MaxParts } :
        \A j, k \in 1..Len(l) : j # k => l[j].PartNumber # l[k].PartNumber }

UploadBodies ==
    [filename : {"a.bin"}, size : Sizes, contentType : {"application/octet-stream"}]
    \cup [filename : {"", "a.bin"}, size : {1}, contentType : {"", "application/octet-stream"}]
UploadReqs == [header : PlanValues, query : {"", "pro", "Gold"}, body : UploadBodies]
\* the create requests of the multipart lifecycle: default plan, sizes around the free limit
LifecycleReqs ==
    [header : {""}, query : {""},
     body : [filename : {"a.bin"}, size : {1, 5}, contentType : {"application/octet-stream"}]]

NoReq == [route |-> "none"]
NoLimit == -1

\* the response of a route, with what the handler had resolved when it answered
Answer(route, req, status, kind) ==
    [route |-> route, req |-> req, status |-> status, kind |-> kind, err |-> "none",
     limitBytes |-> NoLimit, plan |-> "", limit |-> NoLimit, key |-> FALSE,
     uploadId |-> "", pre |-> "none", post |-> "none", agreed |-> FALSE]

-----------------------------------------------------------------------------
(* Storage's multipart sessions (specification sections 4.4 and 6) *)

NoParts == [n \in PartNumbers |-> NoTag]
NoSession == [status |-> "none", parts |-> NoParts]
Terminal == {"completed", "aborted"}

\* the list names exactly the parts storage holds, each with the tag storage returned
Agree(list, held) ==
    /\ \A k \in 1..Len(list) :
          /\ list[k].PartNumber \in PartNumbers
          /\ held[list[k].PartNumber] = list[k].ETag
    /\ \A n \in PartNumbers : held[n] # NoTag => \E k \in 1..Len(list) : list[k].PartNumber = n
    /\ \A j, k \in 1..Len(list) : j # k => list[j].PartNumber # list[k].PartNumber

\* createMultipartUpload: a fresh identifier, or none left within the bound
FreeIds == { u \in UploadIds : sessions[u].status = "none" }

\* completeMultipartUpload(uploadId, key, parts): the outcomes storage can give
StorageCompleteOutcomes(cmd) ==
    LET s == sessions[cmd.UploadId]
    IN  CASE s.status = "open" -> IF Agree(cmd.Parts, s.parts) THEN {"ok"} ELSE {"InvalidPart"}
          [] s.status = "completed" -> {"ok", "NoSuchUpload"}   \* repeated: no-op or failure
          [] OTHER -> {"NoSuchUpload"}

\* abortMultipartUpload(uploadId, key): an absent session is a no-op or NoSuchUpload
StorageAbortOutcomes(cmd) ==
    IF sessions[cmd.UploadId].status = "open" THEN {"ok"} ELSE {"ok", "NoSuchUpload"}

StorageAfterComplete(cmd, out) ==
    IF out = "ok" /\ sessions[cmd.UploadId].status = "open"
    THEN [sessions EXCEPT ![cmd.UploadId].status = "completed"]
    ELSE sessions

StorageAfterAbort(cmd, out) ==
    IF out = "ok" /\ sessions[cmd.UploadId].status = "open"
    THEN [sessions EXCEPT ![cmd.UploadId] = [status |-> "aborted", parts |-> NoParts]]
    ELSE sessions

-----------------------------------------------------------------------------
(* Routes of part_003 *)

NoAnswer == Answer("none", NoReq, 0, "none")

\* res.json(...) has written the previous response and its connection is done
ResponseDelivered ==
    /\ last # NoAnswer
    /\ last' = NoAnswer
    /\ UNCHANGED <<cfg, sessions, pending, bundleVars, otherVars>>

\* POST /api/presign; signErr: getSignedUrl throws (credentials missing)
Presign(req, signErr) ==
    /\ last = NoAnswer
    /\ LET limit == getPlanLimit(req)
           plan == getPlanFromReq(req)
       IN  last' =
             IF ~PresignSchema(req.body) THEN Answer("presign", req, 400, "invalid")
             ELSE IF ExceedsLimit(req.body.size, limit)
             THEN [Answer("presign", req, 400, "quota") EXCEPT
                      !.limitBytes = limit, !.plan = plan, !.limit = limit]
             ELSE IF signErr
             THEN [Answer("presign", req, 400, "error") EXCEPT
                      !.err = "CredentialsProviderError", !.plan = plan, !.limit = limit, !.key = TRUE]
             ELSE [Answer("presign", req, 200, "ok") EXCEPT
                      !.plan = plan, !.limit = limit, !.key = TRUE]
    /\ UNCHANGED <<cfg, sessions, pending, bundleVars, otherVars>>

\* mutant: the gateway answers with an identifier of its own, not storage's
CreatedUploadId_Minted(out) == "g-1"

\* res.json({ uploadId: out.UploadId, ... })
CreatedUploadId(out) == out

\* POST /api/multipart/create; fault: what s3.send(CreateMultipartUpload) throws, or "none"
MpCreate(req, fault) ==
    /\ last = NoAnswer
    /\ FreeIds # {}
    /\ LET limit == getPlanLimit(req)
           plan == getPlanFromReq(req)
           u == CHOOSE x \in FreeIds : TRUE
       IN  IF ~cfg.ENABLE_MULTIPART
           THEN /\ last' = Answer("create", req, 403, "disabled")
                /\ UNCHANGED sessions
           ELSE IF ~MpCreateSchema(req.body)
           THEN /\ last' = Answer("create", req, 400, "invalid")
                /\ UNCHANGED sessions
           ELSE IF ExceedsLimit(req.body.size, limit)
           THEN /\ last' = [Answer("create", req, 400, "quota") EXCEPT
                               !.limitBytes = limit, !.plan = plan, !.limit = limit]
                /\ UNCHANGED sessions
           ELSE IF fault # "none"
           THEN /\ last' = [Answer("create", req, 400, "error") EXCEPT
                               !.err = fault, !.plan = plan, !.limit = limit, !.key = TRUE]
                /\ UNCHANGED sessions
           ELSE /\ sessions' = [sessions EXCEPT ![u] = [status |-> "open", parts |-> NoParts]]
                /\ last' = [Answer("create", req, 200, "ok") EXCEPT
                               !.plan = plan, !.limit = limit, !.key = TRUE,
                               !.uploadId = CreatedUploadId(u), !.post = "open"]
    /\ UNCHANGED <<cfg, pending, bundleVars, otherVars>>

\* POST /api/multipart/part-url: signs an UploadPart URL, storage is not contacted
MpPartUrl(body, signErr) ==
    /\ last = NoAnswer
    /\ last' =
         IF ~cfg.ENABLE_MULTIPART THEN Answer("part-url", body, 403, "disabled")
         ELSE IF ~MpPartUrlSchema(body) THEN Answer("part-url", body, 400, "invalid")
         ELSE IF signErr
         THEN [Answer("part-url", body, 400, "error") EXCEPT !.err = "CredentialsProviderError"]
         ELSE Answer("part-url", body, 200, "ok")
    /\ UNCHANGED <<cfg, sessions, pending, bundleVars, otherVars>>

\* the client PUTs one part to the signed URL; storage records it and returns its tag
ClientUploadPart(u, n, t) ==
    /\ last = NoAnswer
    /\ sessions[u].status = "open"
    /\ sessions' = [sessions EXCEPT ![u].parts[n] = t]
    /\ UNCHANGED <<cfg, pending, last, bundleVars, otherVars>>

\* mutant: the gateway forwards the part numbers with the tag of the first entry
CompleteCommand_OneTag(body) ==
    [UploadId |-> body.uploadId,
     Parts |-> [k \in 1..Len(body.parts) |->
                  [ETag |-> body.parts[1].ETag, PartNumber |-> body.parts[k].PartNumber]]]

\* mutant: the gateway sorts the parts by part number before it forwards them
CompleteCommand_Ascending(body) ==
    [UploadId |-> body.uploadId,
     Parts |-> [k \in 1..Len(body.parts) |->
                  CHOOSE e \in {body.parts[j] : j \in 1..Len(body.parts)} :
                      Cardinality({j \in 1..Len(body.parts) :
                                      body.parts[j].PartNumber < e.PartNumber}) = k - 1]]

\* new CompleteMultipartUploadCommand({... Parts: parsed.parts.map(p => ({ETag, PartNumber}))})
CompleteCommand(body) ==
    [UploadId |-> body.uploadId,
     Parts |-> [k \in 1..Len(body.parts) |->
                  [ETag |-> body.parts[k].ETag, PartNumber |-> body.parts[k].PartNumber]]]

\* mutant: the catch block answers ok
CompleteStatus_AlwaysOk(out) == 200

\* res.json({ok: true, ...}) when s3.send returned, res.status(400) from the catch block
CompleteStatus(out) == IF out = "ok" THEN 200 ELSE 400

\* mutant: the gateway remembers the completes it has in flight and refuses an abort
\* while there is one
AbortStatus_WhileCompleting(out) ==
    IF out = "ok" /\ \A g \in Instances : pending[g].route # "complete" THEN 200 ELSE 400

\* res.json({ok: true}) when s3.send returned, res.status(400) from the catch block
AbortStatus(out) == IF out = "ok" THEN 200 ELSE 400

\* POST /api/multipart/complete up to the await of s3.send
CompleteStart(g, body) ==
    /\ last = NoAnswer
    /\ pending[g] = NoReq
    /\ \A h \in Instances : pending[h].route # "complete"
    /\ IF ~cfg.ENABLE_MULTIPART
       THEN /\ last' = Answer("complete", body, 403, "disabled")
            /\ UNCHANGED pending
       ELSE IF ~MpCompleteSchema(body)
       THEN /\ last' = [Answer("complete", body, 400, "invalid") EXCEPT
                           !.uploadId = body.uploadId,
                           !.pre = IF body.uploadId \in UploadIds
                                   THEN sessions[body.uploadId].status ELSE "none",
                           !.post = IF body.uploadId \in UploadIds
                                    THEN sessions[body.uploadId].status ELSE "none",
                           !.agreed = body.uploadId \in UploadIds
                                      /\ Agree(body.parts, sessions[body.uploadId].parts)]
            /\ UNCHANGED pending
       ELSE /\ pending' = [pending EXCEPT ![g] =
                             [route |-> "complete", body |-> body, cmd |-> CompleteCommand(body)]]
            /\ UNCHANGED last
    /\ UNCHANGED <<cfg, sessions, bundleVars, otherVars>>

\* storage answers the CompleteMultipartUpload of instance g and the handler responds
CompleteFinish(g, fault) ==
    /\ last = NoAnswer
    /\ pending[g].route = "complete"
    /\ LET body == pending[g].body
           cmd == pending[g].cmd
       IN  \E out \in (IF fault = "none" THEN StorageCompleteOutcomes(cmd) ELSE {fault}) :
             /\ sessions' = StorageAfterComplete(cmd, out)
             /\ last' = [Answer("complete", body, CompleteStatus(out),
                                IF out = "ok" THEN "ok" ELSE "error") EXCEPT
                            !.err = IF out = "ok" THEN "none" ELSE out,
                            !.uploadId = body.uploadId,
                            !.pre = sessions[body.uploadId].status,
                            !.post = sessions'[body.uploadId].status,
                            !.agreed = Agree(body.parts, sessions[body.uploadId].parts)]
    /\ pending' = [pending EXCEPT ![g] = NoReq]
    /\ UNCHANGED <<cfg, bundleVars, otherVars>>

\* POST /api/multipart/abort up to the await of s3.send
AbortStart(g, body) ==
    /\ last = NoAnswer
    /\ pending[g] = NoReq
    /\ IF ~cfg.ENABLE_MULTIPART
       THEN /\ last' = Answer("abort", body, 403, "disabled")
            /\ UNCHANGED pending
       ELSE IF ~MpAbortSchema(body)
       THEN /\ last' = Answer("abort", body, 400, "invalid")
            /\ UNCHANGED pending
       ELSE /\ pending' = [pending EXCEPT ![g] =
                             [route |-> "abort", body |-> body, cmd |-> [UploadId |-> body.uploadId]]]
            /\ UNCHANGED last
    /\ UNCHANGED <<cfg, sessions, bundleVars, otherVars>>

\* storage answers the AbortMultipartUpload of instance g and the handler responds
AbortFinish(g, fault) ==
    /\ last = NoAnswer
    /\ pending[g].route = "abort"
    /\ LET body == pending[g].body
           cmd == pending[g].cmd
       IN  \E out \in (IF fault = "none" THEN StorageAbortOutcomes(cmd) ELSE {fault}) :
             /\ sessions' = StorageAfterAbort(cmd, out)
             /\ last' = [Answer("abort", body, AbortStatus(out),
                                IF out = "ok" THEN "ok" ELSE "error") EXCEPT
                            !.err = IF out = "ok" THEN "none" ELSE out,
                            !.uploadId = body.uploadId,
                            !.pre = sessions[body.uploadId].status,
                            !.post = sessions'[body.uploadId].status]
    /\ pending' = [pending EXCEPT ![g] = NoReq]
    /\ UNCHANGED <<cfg, bundleVars, otherVars>>

-----------------------------------------------------------------------------
(* Bundle state while the bundle routes are idle *)

BundleIdle ==
    /\ breq = [route |-> "none", items |-> <<>>, expired |-> FALSE]
    /\ handler = [pc |-> "idle", idx |-> 0, thrown |-> "none", sentAtThrow |-> FALSE]
    /\ archive = [queue |-> <<>>, current |-> 0, finalized |-> FALSE]
    /\ res = [headersSent |-> FALSE, state |-> "open", status |-> 0, written |-> <<>>]
    /\ reads = {}
    /\ client = TRUE

\* no key derived yet
NoKey == [filename |-> <<>>, key |-> <<>>]

\* no object under a key; a stored file; a stored manifest
NoObject == [kind |-> "none", bytes |-> "", files |-> <<>>, expiresAt |-> 0]
FileObject(bytes) == [kind |-> "file", bytes |-> bytes, files |-> <<>>, expiresAt |-> 0]
ManifestObject(names, expiresAt) ==
    [kind |-> "manifest", bytes |-> "", files |-> names, expiresAt |-> expiresAt]

\* the names a transfer request can carry: one safeName leaves alone, one it turns
\* into the former, the name of the manifest, and for downloads also a name never
\* uploaded and one with a path separator
UploadNames == {<<"_">>, <<"#">>, <<"manifest.json">>}
RequestNames == UploadNames \cup {<<"b">>, <<"a", "/", "a">>}

\* [\\#?<>:*|"\x00-\x1F]
UnsafeNameChars == {"\\", "#", "?", "<", ">", ":", "*", "|", "\"", "\n"}

\* name.replace(/[\\#?<>:*|"\x00-\x1F]/g, '_')
safeName(name) ==
    [k \in 1..Len(name) |-> IF name[k] \in UnsafeNameChars THEN "_" ELSE name[k]]

\* nanoid(10) of the transfer the specification follows, and an id never issued
TransferIds == {"i1"}
RequestIds == TransferIds \cup {"i0"}

\* `transfers/${id}/${safeName(name)}` and `transfers/${id}/manifest.json`
TransferKey(id, name) == <<"transfers", "/", id, "/">> \o safeName(name)
ManifestKey(id) == <<"transfers", "/", id, "/", "manifest.json">>

StoreKeys ==
    {TransferKey(id, name) : id \in RequestIds, name \in RequestNames}
       \cup {ManifestKey(id) : id \in RequestIds}

NoTres ==
    [route |-> "none", id |-> "", name |-> <<>>, files |-> <<>>, status |-> 0,
     sent |-> NoObject, fault |-> "none", days |-> 0]

\* no object stored by the upload route
NoStored == -1

\* POST /api/upload before a request arrives; sizes are in MB
NoUpload ==
    [pc |-> "idle", size |-> 0, sent |-> 0, chunks |-> <<>>, truncated |-> FALSE,
     stored |-> NoStored, status |-> 0, reported |-> NoStored, fault |-> "none",
     filename |-> "", mime |-> "application/octet-stream"]

\* state of the other routes while they are idle
OthersIdle ==
    /\ derived = NoKey
    /\ store = [k \in StoreKeys |-> NoObject]
    /\ now = 0
    /\ tres = NoTres
    /\ up = NoUpload

-----------------------------------------------------------------------------
(* Quota admission: presign and multipart create under every configuration *)

Configs ==
    [ENABLE_PLAN_HEADER : BOOLEAN, DEFAULT_PLAN : DefaultPlans, ENABLE_MULTIPART : BOOLEAN]

InitQuota ==
    /\ cfg \in Configs
    /\ sessions = [u \in UploadIds |-> NoSession]
    /\ pending = [g \in Instances |-> NoReq]
    /\ last = NoAnswer
    /\ BundleIdle
    /\ OthersIdle

NextQuota ==
    \/ ResponseDelivered
    \/ (last = NoAnswer /\ \E req \in UploadReqs, signErr \in BOOLEAN : Presign(req, signErr))
    \/ (last = NoAnswer /\ \E req \in UploadReqs, fault \in StorageFaults \cup {"none"} :
                              MpCreate(req, fault))

SpecQuota == InitQuota /\ [][NextQuota]_vars

-----------------------------------------------------------------------------
(* Multipart lifecycle under the default plan configuration *)

CompleteBodies == [uploadId : UploadIds \cup {""}, parts : PartLists]
AbortBodies == [uploadId : UploadIds \cup {""}]
PartUrlBodies == [uploadId : UploadIds \cup {""}, partNumber : 0..MaxParts]

InitMp ==
    /\ cfg \in [ENABLE_PLAN_HEADER : {TRUE}, DEFAULT_PLAN : {"free"}, ENABLE_MULTIPART : BOOLEAN]
    /\ sessions = [u \in UploadIds |-> NoSession]
    /\ pending = [g \in Instances |-> NoReq]
    /\ last = NoAnswer
    /\ BundleIdle
    /\ OthersIdle

NextMp ==
    \/ ResponseDelivered
    \/ (last = NoAnswer /\ \E req \in LifecycleReqs, fault \in StorageFaults \cup {"none"} :
                              MpCreate(req, fault))
    \/ (last = NoAnswer /\ \E body \in PartUrlBodies, signErr \in BOOLEAN : MpPartUrl(body, signErr))
    \/ (last = NoAnswer /\ \E u \in UploadIds, n \in PartNumbers, t \in Tags : ClientUploadPart(u, n, t))
    \/ (last = NoAnswer /\ \E g \in Instances, body \in CompleteBodies : CompleteStart(g, body))
    \/ (last = NoAnswer /\ \E g \in Instances, fault \in StorageFaults \cup {"none"} :
                              CompleteFinish(g, fault))
    \/ (last = NoAnswer /\ \E g \in Instances, body \in AbortBodies : AbortStart(g, body))
    \/ (last = NoAnswer /\ \E g \in Instances, fault \in StorageFaults \cup {"none"} :
                              AbortFinish(g, fault))

SpecMp == InitMp /\ [][NextMp]_vars

-----------------------------------------------------------------------------
(* Bundle assembler: GET /api/bundle (server_bundle.js) and                 *)
(* GET /api/transfers/:id/download.zip (server.js)                          *)

\* a manifest: for each entry, whether its object exists in storage
Manifests == UNION { SeqsOfLen({"present", "absent"}, n) : n \in 0..MaxItems }

\* mutant: the loop walks the manifest from its last entry to its first
LoopOrder_Reversed(items) == [k \in 1..Len(items) |-> Len(items) + 1 - k]

\* for (const it of items): the manifest index visited by the k-th iteration
LoopOrder(items) == [k \in 1..Len(items) |-> k]

\* the manifest index of the iteration the handler is in
LoopItem == LoopOrder(breq.items)[handler.idx]

\* s3.send(new GetObjectCommand(...)) for manifest entry i: what the await yields
GetOutcomes(i) ==
    (IF breq.items[i] = "present" THEN {"ok"} ELSE {"NoSuchKey"}) \cup StorageFaults

\* headObject(key) for manifest entry i: metadata, null for a 404, or a throw
HeadOutcomes(i) ==
    (IF breq.items[i] = "present" THEN {"ok"} ELSE {"null"}) \cup StorageFaults

\* catch (err) { if (!res.headersSent) res.status(code)... }
Catch(err, code) ==
    /\ handler' = [handler EXCEPT !.pc = "done", !.thrown = err,
                                  !.sentAtThrow = res.headersSent]
    /\ res' = IF res.headersSent THEN res
              ELSE [res EXCEPT !.headersSent = TRUE, !.status = code,
                               !.state = IF res.state = "open" THEN "ended" ELSE res.state]

\* an early return with res.status(code)
Refuse(code) ==
    /\ handler' = [handler EXCEPT !.pc = "done"]
    /\ res' = [res EXCEPT !.headersSent = TRUE, !.status = code, !.state = "ended"]

\* the loop moves past the current entry; after the last one archive.finalize() is called
Advance(queue) ==
    IF handler.idx < Len(breq.items)
    THEN /\ handler' = [handler EXCEPT !.idx = handler.idx + 1,
                                       !.pc = IF breq.route = "zip" THEN "head" ELSE "get"]
         /\ archive' = [archive EXCEPT !.queue = queue]
    ELSE /\ handler' = [handler EXCEPT !.pc = IF breq.route = "zip" THEN "finalize" ELSE "done"]
         /\ archive' = [archive EXCEPT !.queue = queue, !.finalized = TRUE]

\* GET /api/bundle up to the first member fetch; m is the manifest key of the query,
\* manifest what fetching it yields
BundleStart(m, manifest, items) ==
    /\ handler.pc = "idle"
    /\ breq' = [route |-> "bundle", items |-> items, expired |-> FALSE]
    /\ IF m = "" THEN Catch("ZodError", 400) /\ UNCHANGED archive
       ELSE IF manifest # "ok" THEN Catch(manifest, 400) /\ UNCHANGED archive
       ELSE IF Len(items) = 0 THEN Refuse(400) /\ UNCHANGED archive
       ELSE /\ handler' = [handler EXCEPT !.pc = "get", !.idx = 1]
            /\ UNCHANGED <<archive, res>>
    /\ UNCHANGED <<mpVars, otherVars, reads, client>>

\* GET /api/bundle: s3.send(GetObject) of the current entry settles; on success the
\* body is appended and the loop goes on to the next entry or to archive.finalize()
BundleMember(out) ==
    /\ breq.route = "bundle" /\ handler.pc = "get"
    /\ out \in GetOutcomes(LoopItem)
    /\ IF out = "ok"
       THEN /\ reads' = reads \cup {LoopItem}
            /\ Advance(Append(archive.queue, LoopItem))
            /\ UNCHANGED res
       ELSE /\ Catch(out, 400)
            /\ UNCHANGED <<archive, reads>>
    /\ UNCHANGED <<mpVars, otherVars, breq, client>>

\* GET /api/transfers/:id/download.zip up to the loop; head is what headObject of the
\* manifest yields, expired whether manifest.expiresAt is in the past
ZipStart(head, items, expired) ==
    /\ handler.pc = "idle"
    /\ breq' = [route |-> "zip", items |-> items, expired |-> expired]
    /\ IF head = "null" THEN Refuse(404) /\ UNCHANGED archive
       ELSE IF head # "ok" THEN Catch(head, 500) /\ UNCHANGED archive
       ELSE IF expired THEN Refuse(410) /\ UNCHANGED archive
       ELSE IF Len(items) = 0
       THEN /\ handler' = [handler EXCEPT !.pc = "finalize"]
            /\ archive' = [archive EXCEPT !.finalized = TRUE]
            /\ UNCHANGED res
       ELSE /\ handler' = [handler EXCEPT !.pc = "head", !.idx = 1]
            /\ UNCHANGED <<archive, res>>
    /\ UNCHANGED <<mpVars, otherVars, reads, client>>

\* download.zip: headObject of the current entry settles; a missing object is skipped
ZipHead(out) ==
    /\ breq.route = "zip" /\ handler.pc = "head"
    /\ out \in HeadOutcomes(LoopItem)
    /\ IF out = "ok"
       THEN /\ handler' = [handler EXCEPT !.pc = "get"]
            /\ UNCHANGED <<archive, res>>
       ELSE IF out = "null"
       THEN Advance(archive.queue) /\ UNCHANGED res
       ELSE Catch(out, 500) /\ UNCHANGED archive
    /\ UNCHANGED <<mpVars, otherVars, breq, reads, client>>

\* download.zip: getObjectStream of the current entry settles and the stream is appended
ZipGet(out) ==
    /\ breq.route = "zip" /\ handler.pc = "get"
    /\ out \in {"ok"} \cup StorageFaults
    /\ IF out = "ok"
       THEN /\ reads' = reads \cup {LoopItem}
            /\ Advance(Append(archive.queue, LoopItem))
            /\ UNCHANGED res
       ELSE /\ Catch(out, 500)
            /\ UNCHANGED <<archive, reads>>
    /\ UNCHANGED <<mpVars, otherVars, breq, client>>

\* archive.pipe(res): the archiver can write while the response is open and drained
Writable == res.state = "open" /\ client

\* the archiver takes the next appended entry and writes its header to the response
ArchiverBegin ==
    /\ Writable
    /\ archive.current = 0 /\ archive.queue # <<>>
    /\ archive' = [archive EXCEPT !.current = Head(archive.queue), !.queue = Tail(archive.queue)]
    /\ res' = [res EXCEPT !.headersSent = TRUE, !.status = 200]
    /\ UNCHANGED <<mpVars, otherVars, breq, handler, reads, client>>

\* the entry's source stream has been read to its end and written to the response
ArchiverEntryDone ==
    /\ Writable
    /\ archive.current # 0
    /\ res' = [res EXCEPT !.written = Append(res.written, archive.current)]
    /\ reads' = reads \ {archive.current}
    /\ archive' = [archive EXCEPT !.current = 0]
    /\ UNCHANGED <<mpVars, otherVars, breq, handler, client>>

\* after archive.finalize() and the last entry the archiver ends the response
ArchiverEnd ==
    /\ Writable
    /\ archive.finalized /\ archive.current = 0 /\ archive.queue = <<>>
    /\ res' = [res EXCEPT !.headersSent = TRUE, !.status = 200, !.state = "ended"]
    /\ handler' = IF handler.pc = "finalize" THEN [handler EXCEPT !.pc = "done"] ELSE handler
    /\ UNCHANGED <<mpVars, otherVars, breq, archive, reads, client>>

\* archive.on('error', err => { throw err; }): the entry's source stream fails while it
\* is read; the listener throws outside the handler's try and the process dies
ArchiveError ==
    /\ archive.current # 0
    /\ handler.pc # "crashed"
    /\ handler' = [handler EXCEPT !.pc = "crashed"]
    /\ res' = [res EXCEPT !.state = "destroyed"]
    /\ reads' = {}
    /\ UNCHANGED <<mpVars, otherVars, breq, archive, client>>

\* the client goes away while the request is being served; the routes register no
\* listener for it
ClientDisconnect ==
    /\ client
    /\ handler.pc \notin {"idle", "crashed"}
    /\ res.state = "open"
    /\ client' = FALSE
    /\ res' = [res EXCEPT !.state = "closed"]
    /\ UNCHANGED <<mpVars, otherVars, breq, handler, archive, reads>>

ManifestOutcomes == {"ok", "NoSuchKey"} \cup StorageFaults
ManifestHeads == {"ok", "null"} \cup StorageFaults

InitBundle ==
    /\ cfg = [ENABLE_PLAN_HEADER |-> TRUE, DEFAULT_PLAN |-> "free", ENABLE_MULTIPART |-> TRUE]
    /\ sessions = [u \in UploadIds |-> NoSession]
    /\ pending = [g \in Instances |-> NoReq]
    /\ last = NoAnswer
    /\ BundleIdle
    /\ OthersIdle

NextBundle ==
    \/ \E m \in {"", "manifests/m.json"}, manifest \in ManifestOutcomes, items \in Manifests :
          BundleStart(m, manifest, items)
    \/ \E out \in {"ok", "NoSuchKey"} \cup StorageFaults : BundleMember(out)
    \/ \E head \in ManifestHeads, items \in Manifests, expired \in BOOLEAN :
          ZipStart(head, items, expired)
    \/ \E out \in {"ok", "null"} \cup StorageFaults : ZipHead(out)
    \/ \E out \in {"ok"} \cup StorageFaults : ZipGet(out)
    \/ ArchiverBegin
    \/ ArchiverEntryDone
    \/ ArchiverEnd
    \/ ArchiveError
    \/ ClientDisconnect

SpecBundle == InitBundle /\ [][NextBundle]_vars

-----------------------------------------------------------------------------
(* Key derivation: safeKeyFrom (part_003 lines 80-88, server_bundle.js 86-94) *)

\* characters of a filename: a letter, a digit, the three allowed marks, both path
\* separators, a control character and a blank
Chars == {"a", "7", ".", "_", "-", "/", "\\", "\n", " "}
Separators == {"/", "\\"}
Controls == {"\n"}
Filenames == UNION { SeqsOfLen(Chars, n) : n \in 0..MaxNameLen }

\* mutant: the character class lets the slash through
AllowedChar_Slash(c) == c \in {"a", "7", ".", "_", "-", "/"}

\* [a-zA-Z0-9._-]
AllowedChar(c) == c \in {"a", "7", ".", "_", "-"}

\* s without its leading run of characters outside the class
RECURSIVE SkipRun(_)
SkipRun(s) ==
    IF s = <<>> \/ AllowedChar(Head(s)) THEN s ELSE SkipRun(Tail(s))

\* .replace(/[^a-zA-Z0-9._-]+/g, '-'): every run outside the class becomes one dash
RECURSIVE ReplaceRuns(_)
ReplaceRuns(s) ==
    IF s = <<>> THEN <<>>
    ELSE IF AllowedChar(Head(s)) THEN <<Head(s)>> \o ReplaceRuns(Tail(s))
    ELSE <<"-">> \o ReplaceRuns(SkipRun(Tail(s)))

\* .slice(-n): the last n characters
SliceLast(s, n) == IF Len(s) <= n THEN s ELSE SubSeq(s, Len(s) - n + 1, Len(s))

\* the default name 'file'
DefaultName == <<"f", "i", "l", "e">>

\* uploads/yyyy/mm/dd/ and the random uuid; the date fields are digits and the uuid
\* hexadecimal digits and dashes, each written as one symbol
KeyPrefix == <<"uploads", "/", "yyyy", "/", "mm", "/", "dd", "/">>
Uuid == <<"uuid">>

safeKeyFrom(filename) ==
    LET name == IF filename = <<>> THEN DefaultName ELSE filename
        cut == SliceLast(ReplaceRuns(name), KEY_TAIL_MAX)
        clean == IF cut = <<>> THEN DefaultName ELSE cut
    IN  KeyPrefix \o Uuid \o <<"-">> \o clean

\* a route derives the key of the filename it was given
DeriveKey(filename) ==
    /\ derived = NoKey
    /\ derived' = [filename |-> filename, key |-> safeKeyFrom(filename)]
    /\ UNCHANGED <<mpVars, bundleVars, uploadVars, transferVars>>

InitKey ==
    /\ cfg = [ENABLE_PLAN_HEADER |-> TRUE, DEFAULT_PLAN |-> "free", ENABLE_MULTIPART |-> TRUE]
    /\ sessions = [u \in UploadIds |-> NoSession]
    /\ pending = [g \in Instances |-> NoReq]
    /\ last = NoAnswer
    /\ BundleIdle
    /\ OthersIdle

\* the route has answered with the key
KeyReturned ==
    /\ derived # NoKey
    /\ derived' = NoKey
    /\ UNCHANGED <<mpVars, bundleVars, uploadVars, transferVars>>

NextKey ==
    \/ \E filename \in Filenames : DeriveKey(filename)
    \/ KeyReturned

SpecKey == InitKey /\ [][NextKey]_vars

-----------------------------------------------------------------------------
(* Transfers: POST /api/transfers, GET /api/transfers/:id, GET /api/file/:id/:name *)
(* and GET /api/transfers/:id/download.zip (server.js)                            *)

\* Not-a-Number, as parseInt returns it for a string that starts with no digit
NaN == -999999

\* values of the expiresInDays form field, and parseInt(value, 10) of them
DaysValues == {"", "0", "45", "abc"}

parseInt10(v) ==
    CASE v = "0" -> 0
      [] v = "7" -> DEFAULT_TTL            \* String(DEFAULT_TTL)
      [] v = "45" -> 45
      [] OTHER -> NaN

\* Math.min and Math.max: NaN if either argument is NaN
MathMin(a, b) == IF a = NaN \/ b = NaN THEN NaN ELSE IF a < b THEN a ELSE b
MathMax(a, b) == IF a = NaN \/ b = NaN THEN NaN ELSE IF a > b THEN a ELSE b

\* Math.max(1, Math.min(30, parseInt(req.body.expiresInDays || String(DEFAULT_TTL), 10)))
ExpiresInDays(v) ==
    MathMax(MIN_TTL_DAYS, MathMin(MAX_TTL_DAYS, parseInt10(OrElse(v, "7"))))

\* mapS3Error(err).status
mapS3Error(code) ==
    CASE code \in {"CredentialsError", "InvalidAccessKeyId", "ExpiredToken"} -> 401
      [] code \in {"SignatureDoesNotMatch", "AccessDenied"} -> 401
      [] code = "Forbidden" -> 403
      [] code = "NoSuchBucket" -> 404
      [] OTHER -> 500

\* the files of one request: original name and content
FileBytes == {"x", "y"}
TransferFiles == UNION { SeqsOfLen([name : UploadNames, bytes : FileBytes], n) : n \in 0..MaxFiles }

\* the clock values the specification visits
ClockValues == {0, 7, 40}

\* what a put of POST /api/transfers can fail with
PutFaults == {"AccessDenied", "TimeoutError"}

\* the store after the first n files of the request have been put, in request order
RECURSIVE PutFiles(_, _, _, _)
PutFiles(st, id, files, n) ==
    IF n = 0 THEN st
    ELSE [PutFiles(st, id, files, n - 1) EXCEPT
             ![TransferKey(id, files[n].name)] = FileObject(files[n].bytes)]

\* the id has no object yet
FreshId(id) == \A k \in StoreKeys : k[3] = id => store[k] = NoObject

\* requests of the transfer routes are taken one after another
TransferReady == tres = NoTres /\ handler.pc = "idle"

\* mutant: the manifest is put before the files
PostTransfers_ManifestFirst(id, files, days, failAt, fault) ==
    /\ TransferReady
    /\ FreshId(id)
    /\ failAt <= Len(files) + 1
    /\ LET n == Len(files)
           d == ExpiresInDays(days)
           answer == [NoTres EXCEPT !.route = "post", !.id = id, !.files = files]
           withManifest == [store EXCEPT ![ManifestKey(id)] =
                               ManifestObject([k \in 1..n |-> files[k].name], now + d)]
       IN  IF n = 0
           THEN /\ tres' = [answer EXCEPT !.status = 400]
                /\ UNCHANGED store
           ELSE IF d = NaN
           THEN /\ tres' = [answer EXCEPT !.status = mapS3Error("RangeError"),
                                          !.fault = "RangeError"]
                /\ UNCHANGED store
           ELSE IF failAt = n + 1
           THEN /\ tres' = [answer EXCEPT !.status = mapS3Error(fault), !.fault = fault]
                /\ UNCHANGED store
           ELSE IF failAt \in 1..n
           THEN /\ store' = PutFiles(withManifest, id, files, failAt - 1)
                /\ tres' = [answer EXCEPT !.status = mapS3Error(fault), !.fault = fault]
           ELSE /\ store' = PutFiles(withManifest, id, files, n)
                /\ tres' = [answer EXCEPT !.status = 200, !.days = d]
    /\ UNCHANGED <<mpVars, bundleVars, uploadVars, keyVars, now>>

\* POST /api/transfers; failAt: the put that storage fails with fault (0: none,
\* Len(files) + 1: the put of the manifest)
PostTransfers(id, files, days, failAt, fault) ==
    /\ TransferReady
    /\ FreshId(id)
    /\ failAt <= Len(files) + 1
    /\ LET n == Len(files)
           d == ExpiresInDays(days)
           answer == [NoTres EXCEPT !.route = "post", !.id = id, !.files = files]
       IN  IF n = 0
           THEN /\ tres' = [answer EXCEPT !.status = 400]
                /\ UNCHANGED store
           ELSE IF failAt \in 1..n
           THEN /\ store' = PutFiles(store, id, files, failAt - 1)
                /\ tres' = [answer EXCEPT !.status = mapS3Error(fault), !.fault = fault]
           ELSE IF d = NaN
           THEN /\ store' = PutFiles(store, id, files, n)
                /\ tres' = [answer EXCEPT !.status = mapS3Error("RangeError"),
                                          !.fault = "RangeError"]
           ELSE IF failAt = n + 1
           THEN /\ store' = PutFiles(store, id, files, n)
                /\ tres' = [answer EXCEPT !.status = mapS3Error(fault), !.fault = fault]
           ELSE /\ store' = [PutFiles(store, id, files, n) EXCEPT
                                ![ManifestKey(id)] =
                                    ManifestObject([k \in 1..n |-> files[k].name], now + d)]
                /\ tres' = [answer EXCEPT !.status = 200, !.days = d]
    /\ UNCHANGED <<mpVars, bundleVars, uploadVars, keyVars, now>>

\* mutant: the comparison is the wrong way round
Expired_Reversed(manifest) == manifest.expiresAt > now

\* new Date(manifest.expiresAt) < new Date()
Expired(manifest) == manifest.expiresAt < now

\* GET /api/transfers/:id; fault: what reading the manifest throws, or "none"
GetManifest(id, fault) ==
    /\ TransferReady
    /\ LET man == store[ManifestKey(id)]
           answer == [NoTres EXCEPT !.route = "manifest", !.id = id]
       IN  tres' =
             IF fault # "none" THEN [answer EXCEPT !.status = 500, !.fault = fault]
             ELSE IF man = NoObject THEN [answer EXCEPT !.status = 404]
             ELSE IF man.kind # "manifest"
             THEN [answer EXCEPT !.status = 500, !.fault = "SyntaxError"]
             ELSE IF Expired(man) THEN [answer EXCEPT !.status = 410]
             ELSE [answer EXCEPT !.status = 200, !.sent = man]
    /\ UNCHANGED <<mpVars, bundleVars, uploadVars, keyVars, store, now>>

\* GET /api/file/:id/:name; faultAt: the storage read that throws
GetFile(id, name, faultAt) ==
    /\ TransferReady
    /\ LET man == store[ManifestKey(id)]
           obj == store[TransferKey(id, name)]
           answer == [NoTres EXCEPT !.route = "file", !.id = id, !.name = name]
       IN  tres' =
             IF faultAt = "manifest" THEN [answer EXCEPT !.status = 500, !.fault = "TimeoutError"]
             ELSE IF man = NoObject THEN [answer EXCEPT !.status = 404]
             ELSE IF man.kind # "manifest"
             THEN [answer EXCEPT !.status = 500, !.fault = "SyntaxError"]
             ELSE IF Expired(man) THEN [answer EXCEPT !.status = 410]
             ELSE IF faultAt = "object" THEN [answer EXCEPT !.status = 500, !.fault = "TimeoutError"]
             ELSE IF obj = NoObject THEN [answer EXCEPT !.status = 404]
             ELSE [answer EXCEPT !.status = 200, !.sent = obj]
    /\ UNCHANGED <<mpVars, bundleVars, uploadVars, keyVars, store, now>>

\* GET /api/transfers/:id/download.zip: what the handler finds in storage
ZipHeadOf(id, fault) ==
    IF fault # "none" THEN fault
    ELSE IF store[ManifestKey(id)] = NoObject THEN "null"
    ELSE IF store[ManifestKey(id)].kind # "manifest" THEN "SyntaxError"
    ELSE "ok"

ZipItemsOf(id) ==
    LET files == store[ManifestKey(id)].files
    IN  [k \in 1..Len(files) |->
            IF store[TransferKey(id, files[k])] = NoObject THEN "absent" ELSE "present"]

TransferZip(id, fault) ==
    /\ TransferReady
    /\ ZipStart(ZipHeadOf(id, fault), ZipItemsOf(id),
                store[ManifestKey(id)].kind = "manifest" /\ Expired(store[ManifestKey(id)]))

\* res.json(...) / res.send(...) has written the previous response
TransferDelivered ==
    /\ tres # NoTres
    /\ tres' = NoTres
    /\ UNCHANGED <<mpVars, bundleVars, uploadVars, keyVars, store, now>>

\* time passes
Tick(t) ==
    /\ TransferReady
    /\ t > now
    /\ now' = t
    /\ UNCHANGED <<mpVars, bundleVars, uploadVars, keyVars, store, tres>>

InitTransfer == InitKey

NextTransfer ==
    \/ TransferDelivered
    \/ (TransferReady /\ \E id \in TransferIds, files \in TransferFiles, days \in DaysValues,
                              failAt \in 0..(MaxFiles + 1), fault \in PutFaults :
                              PostTransfers(id, files, days, failAt, fault))
    \/ (TransferReady /\ \E id \in RequestIds, fault \in {"none", "TimeoutError"} :
                              GetManifest(id, fault))
    \/ (TransferReady /\ \E id \in RequestIds, name \in RequestNames,
                              faultAt \in {"none", "manifest", "object"} : GetFile(id, name, faultAt))
    \/ (TransferReady /\ \E id \in RequestIds, fault \in {"none", "TimeoutError"} :
                              TransferZip(id, fault))
    \/ \E out \in {"ok", "null", "TimeoutError"} : ZipHead(out)
    \/ \E out \in {"ok", "TimeoutError"} : ZipGet(out)
    \/ ArchiverBegin
    \/ ArchiverEntryDone
    \/ ArchiverEnd
    \/ \E t \in ClockValues : Tick(t)

SpecTransfer == InitTransfer /\ [][NextTransfer]_vars

-----------------------------------------------------------------------------
(* Proxy upload: POST /api/upload (part_000 lines 89-117) *)

\* the sizes of the file a client sends, and of the pieces it arrives in, in MB
UploadSizes == {100 * k : k \in 0..MaxUploadChunks}
PieceSizes == {100, 200}

\* Buffer.concat(chunks).length
RECURSIVE SumOf(_)
SumOf(chunks) == IF chunks = <<>> THEN 0 ELSE Head(chunks) + SumOf(Tail(chunks))

\* limits.fileSize, in MB
FileSizeLimit == MAX_UPLOAD_MB

\* a request with a file of the given size arrives: Busboy is set up, req piped in,
\* and bb.on('file') notes the file's name and type
UploadStart(size, filename, mime) ==
    /\ up.pc = "idle"
    /\ up' = [NoUpload EXCEPT !.pc = "receiving", !.size = size,
                              !.filename = OrElse(filename, "file"),
                              !.mime = OrElse(mime, "application/octet-stream")]
    /\ UNCHANGED <<mpVars, bundleVars, keyVars, transferVars>>

\* the next piece of the file reaches Busboy: stream 'data' pushes what is within the
\* limit; beyond it the stream is truncated, 'limit' fires and the rest is drained
UploadData(piece) ==
    /\ up.pc = "receiving"
    /\ up.sent < up.size
    /\ piece <= up.size - up.sent
    /\ LET room == FileSizeLimit - SumOf(up.chunks)
           kept == IF piece <= room THEN piece ELSE room
       IN  up' = [up EXCEPT !.sent = up.sent + piece,
                            !.chunks = IF up.truncated \/ kept = 0 THEN up.chunks
                                       ELSE Append(up.chunks, kept),
                            !.truncated = up.truncated \/ piece > room]
    /\ UNCHANGED <<mpVars, bundleVars, keyVars, transferVars>>

\* bb.on('finish'): the body has been read; fault: what s3.send(PutObject) throws
UploadFinish(fault) ==
    /\ up.pc = "receiving"
    /\ up.sent = up.size
    /\ up' =
         IF up.chunks = <<>> THEN [up EXCEPT !.pc = "done", !.status = 400]
         ELSE IF fault # "none" THEN [up EXCEPT !.pc = "done", !.status = 500, !.fault = fault]
         ELSE [up EXCEPT !.pc = "done", !.status = 200,
                         !.stored = SumOf(up.chunks), !.reported = SumOf(up.chunks)]
    /\ UNCHANGED <<mpVars, bundleVars, keyVars, transferVars>>

\* the response has been written
UploadAnswered ==
    /\ up.pc = "done"
    /\ up' = NoUpload
    /\ UNCHANGED <<mpVars, bundleVars, keyVars, transferVars>>

InitUpload == InitKey

NextUpload ==
    \/ \E size \in UploadSizes, filename \in {"", "a.bin"}, mime \in {"", "image/png"} :
          UploadStart(size, filename, mime)
    \/ \E piece \in PieceSizes : UploadData(piece)
    \/ \E fault \in StorageFaults \cup {"none"} : UploadFinish(fault)
    \/ UploadAnswered

SpecUpload == InitUpload /\ [][NextUpload]_vars

-----------------------------------------------------------------------------
(* Claims about the multipart coordinator, checked under SpecMp *)

\* C1 as stated: for every session storage knows, complete succeeds if and only if
\* the supplied list names exactly the parts storage holds, each with its tag, and a
\* complete that fails leaves the session as it was.
C1_CompleteIffExactParts ==
    (last.route = "complete" /\ last.pre # "none") =>
        /\ (last.status = 200) <=> last.agreed
        /\ last.status # 200 => last.post = last.pre

\* C1 amended: on an open session and with a non-empty list, complete succeeds if and
\* only if the list agrees exactly with the parts storage holds and storage does not
\* fail the call; success completes the session, failure leaves it open; an empty
\* list is refused by the gateway itself and changes nothing.
C1_CompleteOpenSession ==
    /\ (last.route = "complete" /\ last.pre = "open" /\ last.req.parts # <<>>) =>
          /\ (last.status = 200) <=> (last.agreed /\ last.err \notin StorageFaults)
          /\ last.status = 200 => last.post = "completed"
          /\ last.status # 200 => last.post = "open"
    /\ (last.route = "complete" /\ last.req.parts = <<>>) =>
          /\ last.status \in {400, 403}
          /\ last.post = last.pre

\* a complete naming both uploaded parts of an open session was answered ok
C1_Witness ==
    /\ last.route = "complete" /\ last.status = 200
    /\ last.pre = "open" /\ last.post = "completed"
    /\ Len(last.req.parts) = 2

\* one step keeps a terminal session as it is, answers no complete ok on an aborted
\* session, and lets no abort touch a completed session
C2_Step ==
    /\ \A u \in UploadIds : sessions[u].status \in Terminal => sessions'[u] = sessions[u]
    /\ (last = NoAnswer /\ last'.route = "complete" /\ last'.status = 200) =>
          /\ sessions[last'.uploadId].status # "aborted"
          /\ sessions'[last'.uploadId].status = "completed"
    /\ (/\ last = NoAnswer /\ last'.route = "abort" /\ last'.uploadId \in UploadIds
        /\ sessions[last'.uploadId].status = "completed") =>
          sessions'[last'.uploadId] = sessions[last'.uploadId]

C3_AbortNeverErrors ==
    (/\ last.route = "abort" /\ MpAbortSchema(last.req)
     /\ cfg.ENABLE_MULTIPART /\ last.err \notin StorageFaults) =>
        last.status = 200

-----------------------------------------------------------------------------
(* Claims about quota admission, checked under SpecQuota *)

UploadRoutes == {"presign", "create"}

SchemaOf(route, body) ==
    IF route = "presign" THEN PresignSchema(body) ELSE MpCreateSchema(body)

\* C4 as stated: for every plan value and declared size the request is admitted (a key
\* is derived) if and only if the size is within the resolved plan's limit, and is
\* otherwise answered 400 with limitBytes equal to that limit.
C4_AdmitIffWithinLimit ==
    last.route \in UploadRoutes =>
        /\ last.key <=> (last.req.body.size <= getPlanLimit(last.req))
        /\ ~last.key => (last.status = 400 /\ last.limitBytes = getPlanLimit(last.req))

\* C4 amended: for a body its route's schema accepts (multipart enabled, for create)
\* the request is admitted if and only if the size is within the resolved plan's
\* limit and is otherwise answered 400 with limitBytes equal to that limit; a body the
\* schema refuses (size 0 or above the route's maximum among them) is answered 400
\* without limitBytes and is never admitted.
C4_AdmitWellFormed ==
    (last.route \in UploadRoutes /\ (last.route = "create" => cfg.ENABLE_MULTIPART)) =>
        IF SchemaOf(last.route, last.req.body)
        THEN /\ last.key <=> (last.req.body.size <= getPlanLimit(last.req))
             /\ ~last.key => /\ last.status = 400
                             /\ last.kind = "quota"
                             /\ last.limitBytes = getPlanLimit(last.req)
        ELSE ~last.key /\ last.status = 400 /\ last.limitBytes = NoLimit

\* a presign whose declared size equals the limit of the pro plan was admitted
C4_Witness ==
    /\ last.route = "presign" /\ last.key /\ last.status = 200
    /\ last.plan = "pro" /\ last.req.body.size = PLAN_LIMITS.pro

\* the plan value of a request: the header, else the query parameter
PlanValue(req) == OrElse(req.header, req.query)
Unrecognised(req) == toLowerCase(PlanValue(req)) \notin KnownPlans
NamingDefault == [header |-> cfg.DEFAULT_PLAN, query |-> ""]
MostPermissiveLimit ==
    CHOOSE m \in {PLAN_LIMITS[p] : p \in KnownPlans} : \A p \in KnownPlans : PLAN_LIMITS[p] <= m

\* C5 as stated: a request whose plan value is absent or unrecognised is resolved to
\* the configured default plan, gets the limit of a request naming that plan, and
\* never gets the limit of the most permissive plan.
C5_UnknownPlanNeverMostPermissive ==
    (last.route \in UploadRoutes /\ last.limit # NoLimit /\ Unrecognised(last.req)) =>
        /\ last.plan = cfg.DEFAULT_PLAN
        /\ last.limit = getPlanLimit(NamingDefault)
        /\ last.limit # MostPermissiveLimit

\* C5 amended: such a request is resolved to the configured default plan and gets the
\* limit of a request naming that plan; that limit is the most permissive plan's only
\* when DEFAULT_PLAN is itself configured as promax.
C5_UnknownPlanIsDefault ==
    (last.route \in UploadRoutes /\ last.limit # NoLimit /\ Unrecognised(last.req)) =>
        /\ last.plan = cfg.DEFAULT_PLAN
        /\ last.limit = getPlanLimit(NamingDefault)
        /\ cfg.DEFAULT_PLAN # "promax" => last.limit # MostPermissiveLimit

\* an unrecognised header was resolved to the default plan pro while headers are read
C5_Witness ==
    /\ last.route \in UploadRoutes /\ cfg.ENABLE_PLAN_HEADER
    /\ last.req.header = "Gold" /\ cfg.DEFAULT_PLAN = "pro"
    /\ last.plan = "pro" /\ last.kind = "quota" /\ last.limitBytes = PLAN_LIMITS.pro

-----------------------------------------------------------------------------
(* Claims about the bundle assembler, checked under SpecBundle *)

\* the archiver has nothing left it could write
ArchiverIdle ==
    ~Writable \/ (archive.current = 0 /\ archive.queue = <<>> /\ ~archive.finalized)

\* the handler has run to its end and the archiver can take no further step
Settled == handler.pc = "done" /\ ArchiverIdle

\* the manifest indices whose object exists, in manifest order
PresentIndices(items) ==
    LET IsPresent(k) == items[k] = "present"
    IN  SelectSeq([k \in 1..Len(items) |-> k], IsPresent)

\* C6: for a manifest with absent members (no other storage failure, client still
\* connected) the request ends with the archive finalized, the response ended with
\* 200, and exactly the existing members written.
C6_AbsentMembersSkipped ==
    (/\ Settled /\ client
     /\ handler.idx >= 1
     /\ handler.thrown \in {"none", "NoSuchKey"}
     /\ \E i \in 1..Len(breq.items) : breq.items[i] = "absent") =>
        /\ archive.finalized
        /\ res.state = "ended" /\ res.status = 200
        /\ res.written = PresentIndices(breq.items)

\* C7: the members written to the response are in manifest order: of any two written
\* members the one earlier in the manifest was written first.
C7_ManifestOrder ==
    \A a, b \in 1..Len(res.written) : a < b => res.written[a] < res.written[b]

\* two members were written and the archive was ended
C7_Witness ==
    /\ Len(res.written) = 2
    /\ res.state = "ended" /\ res.status = 200

\* C8: when a member fetch fails with a storage error other than not-found after the
\* response has started streaming, the request does not come to rest with the
\* response still open.
C8_FailureClosesResponse ==
    (/\ Settled /\ client
     /\ handler.thrown \in StorageFaults /\ handler.sentAtThrow) =>
        res.state # "open"

\* C9: at most one member read stream is open at any time.
C9_OneReadAtATime == Cardinality(reads) <= 1

\* C10: once the client has disconnected and the handler has run to its end, the
\* request holds no open storage read.
C10_DisconnectCancelsReads ==
    (~client /\ handler.pc = "done") => reads = {}

-----------------------------------------------------------------------------
(* Further claims about the multipart coordinator, checked under SpecMp *)

\* what storage can answer to the complete or abort request rq, and the sessions it
\* leaves, computed from the request body and storage's state alone
StorageCall(rq) ==
    IF rq.route = "complete"
    THEN [UploadId |-> rq.body.uploadId, Parts |-> rq.body.parts]
    ELSE [UploadId |-> rq.body.uploadId]

StorageAnswers(rq) ==
    (IF rq.route = "complete" THEN StorageCompleteOutcomes(StorageCall(rq))
                              ELSE StorageAbortOutcomes(StorageCall(rq))) \cup StorageFaults

StorageAfter(rq, out) ==
    IF rq.route = "complete" THEN StorageAfterComplete(StorageCall(rq), out)
                             ELSE StorageAfterAbort(StorageCall(rq), out)

\* one step: an instance that answers a complete or abort answers what the request and
\* storage alone determine, whichever instance it is and whatever the others have in
\* flight; create and part-url leave nothing behind in any instance
C12_Step ==
    /\ \A g \in Instances :
          (pending[g] # NoReq /\ pending'[g] = NoReq) =>
              /\ last'.route = pending[g].route /\ last'.req = pending[g].body
              /\ \E out \in StorageAnswers(pending[g]) :
                    /\ last'.status = (IF out = "ok" THEN 200 ELSE 400)
                    /\ sessions' = StorageAfter(pending[g], out)
              /\ \A h \in Instances \ {g} : pending'[h] = pending[h]
    /\ (last = NoAnswer /\ last'.route \in {"create", "part-url"}) => pending' = pending
    /\ (last = NoAnswer /\ last'.route = "part-url") =>
          /\ sessions' = sessions
          /\ last'.status \in {200, 400, 403}
          /\ last'.status = 403 <=> ~cfg.ENABLE_MULTIPART
          /\ last'.status = 200 => MpPartUrlSchema(last'.req)

C16_PartsForwardedVerbatim ==
    /\ \A g \in Instances :
          pending[g].route = "complete" =>
              /\ pending[g].cmd.UploadId = pending[g].body.uploadId
              /\ pending[g].cmd.Parts = pending[g].body.parts
    /\ (last.route = "complete" /\ cfg.ENABLE_MULTIPART) =>
          /\ last.kind = "invalid" <=> ~MpCompleteSchema(last.req)
          /\ (last.status # 200 /\ MpCompleteSchema(last.req)) => last.err # "none"

\* a complete listing part 2 before part 1 is in flight to storage
C16_Witness ==
    \E g \in Instances :
        /\ pending[g].route = "complete"
        /\ Len(pending[g].body.parts) = 2
        /\ pending[g].body.parts[1].PartNumber > pending[g].body.parts[2].PartNumber
        /\ pending[g].cmd.Parts[1].PartNumber > pending[g].cmd.Parts[2].PartNumber

\* C14: a storage-side error of a multipart route is reported in the closed taxonomy:
\* rejected credentials as 401, a permission denial as 403, a missing bucket as 404,
\* and never as a client-input 400.
C14_StorageErrorsInTaxonomy ==
    (last.route \in {"create", "complete", "abort"} /\ last.err \in StorageFaults) =>
        /\ last.status # 400
        /\ last.err = "InvalidAccessKeyId" => last.status = 401
        /\ last.err = "AccessDenied" => last.status = 403
        /\ last.err = "NoSuchBucket" => last.status = 404

-----------------------------------------------------------------------------
(* Further claims about quota admission, checked under SpecQuota *)

\* the create request passes the feature flag, the schema and the quota
CreateAdmitted(req) ==
    /\ cfg.ENABLE_MULTIPART
    /\ MpCreateSchema(req.body)
    /\ req.body.size <= getPlanLimit(req)

\* one step: a create that is not admitted leaves storage as it was and returns no
\* upload id; an admitted one either opens exactly one fresh session and returns its
\* identifier, or fails in storage and opens none
C13_Step ==
    (last = NoAnswer /\ last'.route = "create") =>
        IF CreateAdmitted(last'.req)
        THEN /\ last'.status = 200 =>
                   /\ last'.uploadId \in UploadIds
                   /\ sessions[last'.uploadId].status = "none"
                   /\ sessions' = [sessions EXCEPT ![last'.uploadId] =
                                      [status |-> "open", parts |-> NoParts]]
             /\ last'.status # 200 =>
                   /\ last'.err \in StorageFaults
                   /\ sessions' = sessions /\ last'.uploadId = ""
        ELSE /\ last'.status \in {400, 403}
             /\ sessions' = sessions /\ last'.uploadId = ""

\* C13: create checks the quota before it contacts storage: a create denied by quota,
\* refused as malformed or taken with multipart disabled opens no session, so storage
\* holds an open session only for admitted requests, and an admitted create answers
\* with storage's upload identifier unchanged.
C13_QuotaBeforeStorage == [][C13_Step]_vars

\* a well-formed create above the plan limit was denied and storage holds no session
C13_Witness ==
    /\ last.route = "create" /\ last.kind = "quota" /\ last.status = 400
    /\ MpCreateSchema(last.req.body)
    /\ \A u \in UploadIds : sessions[u].status = "none"

\* the limit of the configured default plan (that of free when it names no plan)
DefaultPlanLimit ==
    IF cfg.DEFAULT_PLAN \in KnownPlans THEN PLAN_LIMITS[cfg.DEFAULT_PLAN] ELSE PLAN_LIMITS.free

\* the request with another plan header and plan query parameter
WithPlan(req, h, q) == [req EXCEPT !.header = h, !.query = q]

\* C17: with ENABLE_PLAN_HEADER false the plan the client supplies has no influence:
\* the limit applied is that of DEFAULT_PLAN, and the same request with any other plan
\* header or plan query parameter gets the same limit and the same decision.
C17_PlanIgnoredWhenDisabled ==
    (last.route \in UploadRoutes /\ ~cfg.ENABLE_PLAN_HEADER /\ last.limit # NoLimit) =>
        /\ last.limit = DefaultPlanLimit
        /\ last.plan = cfg.DEFAULT_PLAN
        /\ last.key <=> (last.req.body.size <= DefaultPlanLimit)
        /\ \A h \in PlanValues, q \in PlanValues :
              /\ getPlanLimit(WithPlan(last.req, h, q)) = last.limit
              /\ ExceedsLimit(last.req.body.size, getPlanLimit(WithPlan(last.req, h, q)))
                    <=> ~last.key

\* with the flag off and the default plan free, a presign of 5 GiB that names promax
\* was denied with the limit of free
C17_Witness ==
    /\ ~cfg.ENABLE_PLAN_HEADER /\ cfg.DEFAULT_PLAN = "free"
    /\ last.route = "presign" /\ last.req.header = "promax"
    /\ last.kind = "quota" /\ last.limitBytes = PLAN_LIMITS.free

-----------------------------------------------------------------------------
(* Claims about key derivation, checked under SpecKey *)

\* the part of the derived key that comes from the filename
KeyTail == SubSeq(derived.key, Len(KeyPrefix) + Len(Uuid) + 2, Len(derived.key))

\* the key starts with uploads/yyyy/mm/dd/
StartsWithPrefix ==
    /\ Len(derived.key) > Len(KeyPrefix)
    /\ SubSeq(derived.key, 1, Len(KeyPrefix)) = KeyPrefix

\* C15 as stated: for every filename the key starts with the prefix and the part
\* derived from the filename contains no path separator, no control character and no
\* '..' sequence.
C15_KeyHasNoTraversalSequence ==
    derived # NoKey =>
        /\ StartsWithPrefix
        /\ \A k \in 1..Len(KeyTail) : KeyTail[k] \notin Separators \cup Controls
        /\ \A k \in 1..(Len(KeyTail) - 1) : ~(KeyTail[k] = "." /\ KeyTail[k + 1] = ".")

\* C15 amended: for every filename the key starts with the prefix, the part derived
\* from the filename is not empty and has only letters, digits, dot, underscore and
\* dash (so no path separator and no control character), and the key has no
\* separator beyond those of the prefix: dots of the filename stay, but always inside
\* the last segment, behind the uuid and a dash.
C15_KeyStaysUnderPrefix ==
    derived # NoKey =>
        /\ StartsWithPrefix
        /\ KeyTail # <<>>
        /\ \A k \in 1..Len(KeyTail) : KeyTail[k] \in {"a", "7", ".", "_", "-", "f", "i", "l", "e"}
        /\ \A k \in (Len(KeyPrefix) + 1)..Len(derived.key) : derived.key[k] \notin Separators
        /\ derived.key[Len(KeyPrefix) + 1] = "uuid" /\ derived.key[Len(KeyPrefix) + 2] = "-"

\* the filename ../ was given and its two dots are in the key, the slash is not
C15_Witness ==
    /\ derived.filename = <<".", ".", "/">>
    /\ KeyTail = <<".", ".", "-">>

-----------------------------------------------------------------------------
(* Claims about the transfers, checked under SpecTransfer *)

\* C18: after a successful POST /api/transfers every file of the request is stored
\* under a key distinct from the key of every other file of the request and from the
\* manifest key, so each file's object holds exactly the bytes uploaded for it and
\* the manifest key holds the manifest.
C18_FileKeysDistinct ==
    (tres.route = "post" /\ tres.status = 200) =>
        /\ \A j, k \in 1..Len(tres.files) :
              j # k => TransferKey(tres.id, tres.files[j].name)
                          # TransferKey(tres.id, tres.files[k].name)
        /\ \A j \in 1..Len(tres.files) :
              /\ TransferKey(tres.id, tres.files[j].name) # ManifestKey(tres.id)
              /\ store[TransferKey(tres.id, tres.files[j].name)] = FileObject(tres.files[j].bytes)
        /\ store[ManifestKey(tres.id)].kind = "manifest"

\* the manifest of transfer id is stored and its expiresAt is in the past
PastExpiry(id) ==
    /\ id \in TransferIds
    /\ store[ManifestKey(id)].kind = "manifest"
    /\ store[ManifestKey(id)].expiresAt < now

\* C19: for a transfer whose stored manifest has an expiresAt earlier than the current
\* time, the manifest, file and zip routes deliver neither the manifest nor any file
\* byte and answer 410 (500 when storage fails while the manifest is read); in the zip
\* route nothing has been fetched, appended or written when 410 is answered.
C19_ExpiredAnswers410 ==
    /\ (tres.route \in {"manifest", "file"} /\ PastExpiry(tres.id)) =>
          /\ tres.sent = NoObject
          /\ tres.status \in {410, 500}
          /\ tres.fault = "none" => tres.status = 410
    /\ (/\ breq.route = "zip" /\ handler.thrown = "none" /\ res.status # 404
        /\ \A id \in TransferIds : PastExpiry(id)) =>
          /\ res.status = 410 /\ res.state = "ended"
          /\ res.written = <<>> /\ reads = {}
          /\ archive.queue = <<>> /\ ~archive.finalized

\* a stored file of an expired transfer was asked for and the answer was 410
C19_Witness ==
    /\ tres.route = "file" /\ tres.status = 410
    /\ PastExpiry(tres.id)
    /\ store[TransferKey(tres.id, tres.name)].kind = "file"

\* the name is one of the files the stored manifest of the transfer lists
Listed(id, name) ==
    \E k \in 1..Len(store[ManifestKey(id)].files) : store[ManifestKey(id)].files[k] = name

\* C20: GET /api/file/:id/:name streams an object only for a name the manifest of the
\* transfer lists; for every other name (manifest.json and names with a path
\* separator among them) nothing is streamed, and the answer is 404 when the
\* transfer is live and storage answers.
C20_OnlyListedFilesDelivered ==
    (tres.route = "file" /\ ~Listed(tres.id, tres.name)) =>
        /\ tres.status # 200
        /\ tres.sent = NoObject
        /\ (/\ store[ManifestKey(tres.id)].kind = "manifest"
            /\ ~(store[ManifestKey(tres.id)].expiresAt < now)
            /\ tres.fault = "none") => tres.status = 404

\* C22: POST /api/transfers writes the manifest only after the put of every file of
\* the request has succeeded: a request answered with an error (a put failed, or the
\* request was refused) has left no manifest, a request answered 200 has left the
\* manifest listing its files in request order, and every manifest in storage lists
\* only names whose object is stored.
C22_ManifestAfterAllFiles ==
    /\ tres.route = "post" =>
          /\ tres.status # 200 =>
                /\ store[ManifestKey(tres.id)].kind # "manifest"
                /\ tres.status \in {400, 401, 403, 404, 500}
          /\ tres.status = 200 =>
                /\ store[ManifestKey(tres.id)].kind = "manifest"
                /\ store[ManifestKey(tres.id)].files =
                      [k \in 1..Len(tres.files) |-> tres.files[k].name]
    /\ \A id \in TransferIds :
          store[ManifestKey(id)].kind = "manifest" =>
              \A k \in 1..Len(store[ManifestKey(id)].files) :
                  store[TransferKey(id, store[ManifestKey(id)].files[k])] # NoObject

\* the put of the second file failed after the first file was stored: the answer is
\* an error and there is no manifest
C22_Witness ==
    /\ tres.route = "post" /\ tres.status # 200 /\ tres.fault \in PutFaults
    /\ Len(tres.files) = 2
    /\ store[TransferKey(tres.id, tres.files[1].name)].kind = "file"
    /\ store[ManifestKey(tres.id)] = NoObject

\* C23: for every value of the expiresInDays field (absent, below 1, above 30 or
\* non-numeric), a POST /api/transfers with files that storage accepts is answered
\* 200 with a lifetime that is an integer in 1..30 days, and the manifest's
\* expiresAt is createdAt plus exactly that many days.
C23_LifetimeClamped ==
    (tres.route = "post" /\ Len(tres.files) > 0 /\ tres.fault \notin PutFaults) =>
        /\ tres.status = 200
        /\ tres.days \in MIN_TTL_DAYS..MAX_TTL_DAYS
        /\ store[ManifestKey(tres.id)].kind = "manifest"
        /\ store[ManifestKey(tres.id)].expiresAt = now + tres.days

-----------------------------------------------------------------------------
(* Claims about the proxy upload, checked under SpecUpload *)

\* C21: POST /api/upload never stores a truncated object: a file larger than
\* MAX_UPLOAD_MB ends with an error response and nothing stored, and an object
\* reported with ok:true holds all the bytes the client sent.
C21_NoTruncatedObject ==
    up.pc = "done" =>
        /\ up.size > MAX_UPLOAD_MB => (up.status # 200 /\ up.stored = NoStored)
        /\ up.status = 200 => (up.stored = up.size /\ up.reported = up.size)

====
